---- MODULE Spec2Model ----
(***************************************************************************)
(* Model of the translit crate: the transliteration engine                 *)
(* (Transliterator::new, Transliterator::convert, the ToLatin / FromLatin  *)
(* traits and the preset wrappers) and its transliteration tables.         *)
(*                                                                         *)
(* A character is its Unicode scalar value (a natural number), a string    *)
(* (&str / String) is a sequence of characters, a table (CharsMapping) is  *)
(* a sequence of <<source, target>> pairs of strings.  Matching valid      *)
(* UTF-8 byte strings and matching their scalar values coincide (UTF-8 is  *)
(* self-synchronising), so only str::len needs the byte view.              *)
(***************************************************************************)
EXTENDS Integers, Sequences, FiniteSets, TLC

VARIABLES
  kind,      \* which type was constructed: "Transliterator" or a preset wrapper
  supplied,  \* the table handed to Transliterator::new
  rules,     \* the field `rules` of the Transliterator (the wrapper's `translit`)
  calls,     \* number of calls made on the engine so far
  prev,      \* the call before the last one: [op, src, invert, out]
  last       \* the last call: [op, src, invert, out]

vars == <<kind, supplied, rules, calls, prev, last>>

(***************************************************************************)
(* Bounds of the model.                                                    *)
(***************************************************************************)
\* calls made on one engine of the preset specification
MaxCalls == 2
\* length of a returned string that is passed to a further call
MaxFeedLen == 8
\* number of pairs of an enumerated caller-supplied table
MaxRules == 2
\* length of an enumerated input string over the small alphabet
MaxLen == 2
\* length of an enumerated input string over the Passport 2013 sample alphabet
MaxPresetLen == 2

(***************************************************************************)
(* The transliteration tables.                                             *)
(***************************************************************************)
\* passport2013.rs: the Passport (2013), ICAO table, in source order.
iternational_passport_2013_ru ==
  <<
    <<<<1040>>, <<65>>>>, \* U+0410 -> "A" (line 12)
    <<<<1041>>, <<66>>>>, \* U+0411 -> "B" (line 13)
    <<<<1042>>, <<86>>>>, \* U+0412 -> "V" (line 14)
    <<<<1043>>, <<71>>>>, \* U+0413 -> "G" (line 15)
    <<<<1044>>, <<68>>>>, \* U+0414 -> "D" (line 16)
    <<<<1045>>, <<69>>>>, \* U+0415 -> "E" (line 17)
    <<<<1025>>, <<69>>>>, \* U+0401 -> "E" (line 18)
    <<<<1046>>, <<90,104>>>>, \* U+0416 -> "Zh" (line 19)
    <<<<1047>>, <<90>>>>, \* U+0417 -> "Z" (line 20)
    <<<<1048>>, <<73>>>>, \* U+0418 -> "I" (line 21)
    <<<<1049>>, <<73>>>>, \* U+0419 -> "I" (line 22)
    <<<<1050>>, <<75>>>>, \* U+041A -> "K" (line 23)
    <<<<1051>>, <<76>>>>, \* U+041B -> "L" (line 24)
    <<<<1052>>, <<77>>>>, \* U+041C -> "M" (line 25)
    <<<<1053>>, <<78>>>>, \* U+041D -> "N" (line 26)
    <<<<1054>>, <<79>>>>, \* U+041E -> "O" (line 27)
    <<<<1055>>, <<80>>>>, \* U+041F -> "P" (line 28)
    <<<<1056>>, <<82>>>>, \* U+0420 -> "R" (line 29)
    <<<<1057>>, <<83>>>>, \* U+0421 -> "S" (line 30)
    <<<<1058>>, <<84>>>>, \* U+0422 -> "T" (line 31)
    <<<<1059>>, <<85>>>>, \* U+0423 -> "U" (line 32)
    <<<<1060>>, <<70>>>>, \* U+0424 -> "F" (line 33)
    <<<<1061>>, <<75,104>>>>, \* U+0425 -> "Kh" (line 34)
    <<<<1062>>, <<84,115>>>>, \* U+0426 -> "Ts" (line 35)
    <<<<1063>>, <<67,104>>>>, \* U+0427 -> "Ch" (line 36)
    <<<<1064>>, <<83,104>>>>, \* U+0428 -> "Sh" (line 37)
    <<<<1065>>, <<83,104,99,104>>>>, \* U+0429 -> "Shch" (line 38)
    <<<<1066>>, <<73,101>>>>, \* U+042A -> "Ie" (line 39)
    <<<<1067>>, <<89>>>>, \* U+042B -> "Y" (line 40)
    <<<<1068>>, <<>>>>, \* U+042C -> "" (line 41)
    <<<<1069>>, <<69>>>>, \* U+042D -> "E" (line 42)
    <<<<1070>>, <<73,117>>>>, \* U+042E -> "Iu" (line 43)
    <<<<1071>>, <<73,97>>>>, \* U+042F -> "Ia" (line 44)
    <<<<1072>>, <<97>>>>, \* U+0430 -> "a" (line 45)
    <<<<1073>>, <<98>>>>, \* U+0431 -> "b" (line 46)
    <<<<1074>>, <<118>>>>, \* U+0432 -> "v" (line 47)
    <<<<1075>>, <<103>>>>, \* U+0433 -> "g" (line 48)
    <<<<1076>>, <<100>>>>, \* U+0434 -> "d" (line 49)
    <<<<1077>>, <<101>>>>, \* U+0435 -> "e" (line 50)
    <<<<1105>>, <<101>>>>, \* U+0451 -> "e" (line 51)
    <<<<1078>>, <<122,104>>>>, \* U+0436 -> "zh" (line 52)
    <<<<1079>>, <<122>>>>, \* U+0437 -> "z" (line 53)
    <<<<1080>>, <<105>>>>, \* U+0438 -> "i" (line 54)
    <<<<1081>>, <<105>>>>, \* U+0439 -> "i" (line 55)
    <<<<1082>>, <<107>>>>, \* U+043A -> "k" (line 56)
    <<<<1083>>, <<108>>>>, \* U+043B -> "l" (line 57)
    <<<<1084>>, <<109>>>>, \* U+043C -> "m" (line 58)
    <<<<1085>>, <<110>>>>, \* U+043D -> "n" (line 59)
    <<<<1086>>, <<111>>>>, \* U+043E -> "o" (line 60)
    <<<<1087>>, <<112>>>>, \* U+043F -> "p" (line 61)
    <<<<1088>>, <<114>>>>, \* U+0440 -> "r" (line 62)
    <<<<1089>>, <<115>>>>, \* U+0441 -> "s" (line 63)
    <<<<1090>>, <<116>>>>, \* U+0442 -> "t" (line 64)
    <<<<1091>>, <<117>>>>, \* U+0443 -> "u" (line 65)
    <<<<1092>>, <<102>>>>, \* U+0444 -> "f" (line 66)
    <<<<1093>>, <<107,104>>>>, \* U+0445 -> "kh" (line 67)
    <<<<1094>>, <<116,115>>>>, \* U+0446 -> "ts" (line 68)
    <<<<1095>>, <<99,104>>>>, \* U+0447 -> "ch" (line 69)
    <<<<1096>>, <<115,104>>>>, \* U+0448 -> "sh" (line 70)
    <<<<1097>>, <<115,104,99,104>>>>, \* U+0449 -> "shch" (line 71)
    <<<<1098>>, <<105,101>>>>, \* U+044A -> "ie" (line 72)
    <<<<1099>>, <<121>>>>, \* U+044B -> "y" (line 73)
    <<<<1100>>, <<>>>>, \* U+044C -> "" (line 74)
    <<<<1101>>, <<101>>>>, \* U+044D -> "e" (line 75)
    <<<<1102>>, <<105,117>>>>, \* U+044E -> "iu" (line 76)
    <<<<1103>>, <<105,97>>>>, \* U+044F -> "ia" (line 77)
    <<<<8470>>, <<35>>>> \* U+2116 -> "#" (line 78)
  >>

\* macedonian.rs: the Macedonian digraph system table, in source order.
digraph_system ==
  <<
    <<<<1040>>, <<65>>>>, \* U+0410 -> "A" (line 11)
    <<<<1041>>, <<66>>>>, \* U+0411 -> "B" (line 12)
    <<<<1042>>, <<86>>>>, \* U+0412 -> "V" (line 13)
    <<<<1043>>, <<71>>>>, \* U+0413 -> "G" (line 14)
    <<<<1044>>, <<68>>>>, \* U+0414 -> "D" (line 15)
    <<<<1027>>, <<71,106>>>>, \* U+0403 -> "Gj" (line 16)
    <<<<1045>>, <<69>>>>, \* U+0415 -> "E" (line 17)
    <<<<1046>>, <<90,104>>>>, \* U+0416 -> "Zh" (line 18)
    <<<<1047>>, <<90>>>>, \* U+0417 -> "Z" (line 19)
    <<<<1029>>, <<68,122>>>>, \* U+0405 -> "Dz" (line 20)
    <<<<1048>>, <<73>>>>, \* U+0418 -> "I" (line 21)
    <<<<1032>>, <<74>>>>, \* U+0408 -> "J" (line 22)
    <<<<1050>>, <<75>>>>, \* U+041A -> "K" (line 23)
    <<<<1051>>, <<76>>>>, \* U+041B -> "L" (line 24)
    <<<<1033>>, <<76,106>>>>, \* U+0409 -> "Lj" (line 25)
    <<<<1052>>, <<77>>>>, \* U+041C -> "M" (line 26)
    <<<<1053>>, <<78>>>>, \* U+041D -> "N" (line 27)
    <<<<1034>>, <<78,106>>>>, \* U+040A -> "Nj" (line 28)
    <<<<1054>>, <<79>>>>, \* U+041E -> "O" (line 29)
    <<<<1055>>, <<80>>>>, \* U+041F -> "P" (line 30)
    <<<<1056>>, <<82>>>>, \* U+0420 -> "R" (line 31)
    <<<<1057>>, <<83>>>>, \* U+0421 -> "S" (line 32)
    <<<<1058>>, <<84>>>>, \* U+0422 -> "T" (line 33)
    <<<<1036>>, <<75,106>>>>, \* U+040C -> "Kj" (line 34)
    <<<<1059>>, <<85>>>>, \* U+0423 -> "U" (line 35)
    <<<<1060>>, <<70>>>>, \* U+0424 -> "F" (line 36)
    <<<<1061>>, <<72>>>>, \* U+0425 -> "H" (line 37)
    <<<<1062>>, <<67>>>>, \* U+0426 -> "C" (line 38)
    <<<<1063>>, <<67,104>>>>, \* U+0427 -> "Ch" (line 39)
    <<<<1039>>, <<68,106>>>>, \* U+040F -> "Dj" (line 40)
    <<<<1064>>, <<83,104>>>>, \* U+0428 -> "Sh" (line 41)
    <<<<1072>>, <<97>>>>, \* U+0430 -> "a" (line 42)
    <<<<1073>>, <<98>>>>, \* U+0431 -> "b" (line 43)
    <<<<1074>>, <<118>>>>, \* U+0432 -> "v" (line 44)
    <<<<1075>>, <<103>>>>, \* U+0433 -> "g" (line 45)
    <<<<1076>>, <<100>>>>, \* U+0434 -> "d" (line 46)
    <<<<1107>>, <<103,106>>>>, \* U+0453 -> "gj" (line 47)
    <<<<1077>>, <<101>>>>, \* U+0435 -> "e" (line 48)
    <<<<1078>>, <<122,104>>>>, \* U+0436 -> "zh" (line 49)
    <<<<1079>>, <<122>>>>, \* U+0437 -> "z" (line 50)
    <<<<1109>>, <<100,122>>>>, \* U+0455 -> "dz" (line 51)
    <<<<1080>>, <<105>>>>, \* U+0438 -> "i" (line 52)
    <<<<1112>>, <<106>>>>, \* U+0458 -> "j" (line 53)
    <<<<1082>>, <<107>>>>, \* U+043A -> "k" (line 54)
    <<<<1083>>, <<108>>>>, \* U+043B -> "l" (line 55)
    <<<<1113>>, <<108,106>>>>, \* U+0459 -> "lj" (line 56)
    <<<<1084>>, <<109>>>>, \* U+043C -> "m" (line 57)
    <<<<1085>>, <<110>>>>, \* U+043D -> "n" (line 58)
    <<<<1114>>, <<110,106>>>>, \* U+045A -> "nj" (line 59)
    <<<<1086>>, <<111>>>>, \* U+043E -> "o" (line 60)
    <<<<1087>>, <<112>>>>, \* U+043F -> "p" (line 61)
    <<<<1088>>, <<114>>>>, \* U+0440 -> "r" (line 62)
    <<<<1089>>, <<115>>>>, \* U+0441 -> "s" (line 63)
    <<<<1090>>, <<116>>>>, \* U+0442 -> "t" (line 64)
    <<<<1116>>, <<107,106>>>>, \* U+045C -> "kj" (line 65)
    <<<<1091>>, <<117>>>>, \* U+0443 -> "u" (line 66)
    <<<<1092>>, <<102>>>>, \* U+0444 -> "f" (line 67)
    <<<<1093>>, <<104>>>>, \* U+0445 -> "h" (line 68)
    <<<<1094>>, <<99>>>>, \* U+0446 -> "c" (line 69)
    <<<<1095>>, <<99,104>>>>, \* U+0447 -> "ch" (line 70)
    <<<<1119>>, <<100,106>>>>, \* U+045F -> "dj" (line 71)
    <<<<1096>>, <<115,104>>>> \* U+0448 -> "sh" (line 72)
  >>

\* order_n_995.rs: the driver licence (Order N 995) table, in source order.
order_n_995_ru ==
  <<
    <<<<1040>>, <<65>>>>, \* U+0410 -> "A" (line 13)
    <<<<1041>>, <<66>>>>, \* U+0411 -> "B" (line 14)
    <<<<1042>>, <<86>>>>, \* U+0412 -> "V" (line 15)
    <<<<1043>>, <<71>>>>, \* U+0413 -> "G" (line 16)
    <<<<1044>>, <<68>>>>, \* U+0414 -> "D" (line 17)
    <<<<1045>>, <<69>>>>, \* U+0415 -> "E" (line 18)
    <<<<1025>>, <<69>>>>, \* U+0401 -> "E" (line 19)
    <<<<1046>>, <<90,104>>>>, \* U+0416 -> "Zh" (line 20)
    <<<<1047>>, <<90>>>>, \* U+0417 -> "Z" (line 21)
    <<<<1048>>, <<73>>>>, \* U+0418 -> "I" (line 22)
    <<<<1049>>, <<73>>>>, \* U+0419 -> "I" (line 23)
    <<<<1050>>, <<75>>>>, \* U+041A -> "K" (line 24)
    <<<<1051>>, <<76>>>>, \* U+041B -> "L" (line 25)
    <<<<1052>>, <<77>>>>, \* U+041C -> "M" (line 26)
    <<<<1053>>, <<78>>>>, \* U+041D -> "N" (line 27)
    <<<<1054>>, <<79>>>>, \* U+041E -> "O" (line 28)
    <<<<1055>>, <<80>>>>, \* U+041F -> "P" (line 29)
    <<<<1056>>, <<82>>>>, \* U+0420 -> "R" (line 30)
    <<<<1057>>, <<83>>>>, \* U+0421 -> "S" (line 31)
    <<<<1058>>, <<84>>>>, \* U+0422 -> "T" (line 32)
    <<<<1059>>, <<85>>>>, \* U+0423 -> "U" (line 33)
    <<<<1060>>, <<70>>>>, \* U+0424 -> "F" (line 34)
    <<<<1061>>, <<75,104>>>>, \* U+0425 -> "Kh" (line 35)
    <<<<1062>>, <<84,115>>>>, \* U+0426 -> "Ts" (line 36)
    <<<<1063>>, <<67,104>>>>, \* U+0427 -> "Ch" (line 37)
    <<<<1064>>, <<83,104>>>>, \* U+0428 -> "Sh" (line 38)
    <<<<1065>>, <<83,104,99,104>>>>, \* U+0429 -> "Shch" (line 39)
    <<<<1067>>, <<89>>>>, \* U+042B -> "Y" (line 40)
    <<<<1066>>, <<73,101>>>>, \* U+042A -> "Ie" (line 41)
    <<<<1068>>, <<>>>>, \* U+042C -> "" (line 42)
    <<<<1069>>, <<69>>>>, \* U+042D -> "E" (line 43)
    <<<<1070>>, <<73,117>>>>, \* U+042E -> "Iu" (line 44)
    <<<<1071>>, <<73,97>>>>, \* U+042F -> "Ia" (line 45)
    <<<<1072>>, <<97>>>>, \* U+0430 -> "a" (line 46)
    <<<<1073>>, <<98>>>>, \* U+0431 -> "b" (line 47)
    <<<<1074>>, <<118>>>>, \* U+0432 -> "v" (line 48)
    <<<<1075>>, <<103>>>>, \* U+0433 -> "g" (line 49)
    <<<<1076>>, <<100>>>>, \* U+0434 -> "d" (line 50)
    <<<<1077>>, <<101>>>>, \* U+0435 -> "e" (line 51)
    <<<<1105>>, <<101>>>>, \* U+0451 -> "e" (line 52)
    <<<<1078>>, <<122,104>>>>, \* U+0436 -> "zh" (line 53)
    <<<<1079>>, <<122>>>>, \* U+0437 -> "z" (line 54)
    <<<<1080>>, <<105>>>>, \* U+0438 -> "i" (line 55)
    <<<<1081>>, <<105>>>>, \* U+0439 -> "i" (line 56)
    <<<<1082>>, <<107>>>>, \* U+043A -> "k" (line 57)
    <<<<1083>>, <<108>>>>, \* U+043B -> "l" (line 58)
    <<<<1084>>, <<109>>>>, \* U+043C -> "m" (line 59)
    <<<<1085>>, <<110>>>>, \* U+043D -> "n" (line 60)
    <<<<1086>>, <<111>>>>, \* U+043E -> "o" (line 61)
    <<<<1087>>, <<112>>>>, \* U+043F -> "p" (line 62)
    <<<<1088>>, <<114>>>>, \* U+0440 -> "r" (line 63)
    <<<<1089>>, <<115>>>>, \* U+0441 -> "s" (line 64)
    <<<<1090>>, <<116>>>>, \* U+0442 -> "t" (line 65)
    <<<<1091>>, <<117>>>>, \* U+0443 -> "u" (line 66)
    <<<<1092>>, <<102>>>>, \* U+0444 -> "f" (line 67)
    <<<<1093>>, <<107,104>>>>, \* U+0445 -> "kh" (line 68)
    <<<<1094>>, <<116,115>>>>, \* U+0446 -> "ts" (line 69)
    <<<<1095>>, <<99,104>>>>, \* U+0447 -> "ch" (line 70)
    <<<<1096>>, <<115,104>>>>, \* U+0448 -> "sh" (line 71)
    <<<<1097>>, <<115,104,99,104>>>>, \* U+0449 -> "shch" (line 72)
    <<<<1099>>, <<121>>>>, \* U+044B -> "y" (line 73)
    <<<<1098>>, <<105,101>>>>, \* U+044A -> "ie" (line 74)
    <<<<1100>>, <<>>>>, \* U+044C -> "" (line 75)
    <<<<1101>>, <<101>>>>, \* U+044D -> "e" (line 76)
    <<<<1102>>, <<105,117>>>>, \* U+044E -> "iu" (line 77)
    <<<<1103>>, <<105,97>>>> \* U+044F -> "ia" (line 78)
  >>

\* GOST 7.79 System B: the pairs that the strings SOURCE_RU and TRANSLIT_GOST779B_RU of
\* tests.rs (lines 4-18) determine, in order of first appearance.
gost779b_ru ==
  <<
    <<<<1042>>, <<86>>>>, \* U+0412 -> "V"
    <<<<1077>>, <<101>>>>, \* U+0435 -> "e"
    <<<<1079>>, <<122>>>>, \* U+0437 -> "z"
    <<<<1091>>, <<117>>>>, \* U+0443 -> "u"
    <<<<1074>>, <<118>>>>, \* U+0432 -> "v"
    <<<<1080>>, <<105>>>>, \* U+0438 -> "i"
    <<<<1081>>, <<106>>>>, \* U+0439 -> "j"
    <<<<1086>>, <<111>>>>, \* U+043E -> "o"
    <<<<1090>>, <<116>>>>, \* U+0442 -> "t"
    <<<<1082>>, <<107>>>>, \* U+043A -> "k"
    <<<<1088>>, <<114>>>>, \* U+0440 -> "r"
    <<<<1099>>, <<121,96>>>>, \* U+044B -> "y`"
    <<<<1083>>, <<108>>>>, \* U+043B -> "l"
    <<<<1076>>, <<100>>>>, \* U+0434 -> "d"
    <<<<1084>>, <<109>>>>, \* U+043C -> "m"
    <<<<1093>>, <<120>>>>, \* U+0445 -> "x"
    <<<<1085>>, <<110>>>>, \* U+043D -> "n"
    <<<<1073>>, <<98>>>>, \* U+0431 -> "b"
    <<<<1087>>, <<112>>>>, \* U+043F -> "p"
    <<<<1072>>, <<97>>>>, \* U+0430 -> "a"
    <<<<1103>>, <<121,97>>>>, \* U+044F -> "ya"
    <<<<1064>>, <<83,104>>>>, \* U+0428 -> "Sh"
    <<<<1089>>, <<115>>>>, \* U+0441 -> "s"
    <<<<1100>>, <<96>>>>, \* U+044C -> "`"
    <<<<1047>>, <<90>>>>, \* U+0417 -> "Z"
    <<<<1096>>, <<115,104>>>>, \* U+0448 -> "sh"
    <<<<1050>>, <<75>>>>, \* U+041A -> "K"
    <<<<1102>>, <<121,117>>>>, \* U+044E -> "yu"
    <<<<1053>>, <<78>>>>, \* U+041D -> "N"
    <<<<1075>>, <<103>>>>, \* U+0433 -> "g"
    <<<<1058>>, <<84>>>>, \* U+0422 -> "T"
    <<<<1055>>, <<80>>>>, \* U+041F -> "P"
    <<<<1078>>, <<122,104>>>> \* U+0436 -> "zh"
  >>

\* GOST 7.79 System B: the pairs that the strings SOURCE_BY and TRANSLIT_BY of
\* tests.rs (lines 131-136) determine, in order of first appearance.
gost779b_by ==
  <<
    <<<<1059>>, <<85>>>>, \* U+0423 -> "U"
    <<<<1088>>, <<114>>>>, \* U+0440 -> "r"
    <<<<1091>>, <<117>>>>, \* U+0443 -> "u"
    <<<<1076>>, <<100>>>>, \* U+0434 -> "d"
    <<<<1086>>, <<111>>>>, \* U+043E -> "o"
    <<<<1075>>, <<104>>>>, \* U+0433 -> "h"
    <<<<1072>>, <<97>>>>, \* U+0430 -> "a"
    <<<<1074>>, <<118>>>>, \* U+0432 -> "v"
    <<<<1077>>, <<101>>>>, \* U+0435 -> "e"
    <<<<1073>>, <<98>>>>, \* U+0431 -> "b"
    <<<<1103>>, <<121,97>>>>, \* U+044F -> "ya"
    <<<<1118>>, <<117,96>>>>, \* U+045E -> "u`"
    <<<<1089>>, <<115>>>>, \* U+0441 -> "s"
    <<<<1093>>, <<120>>>>, \* U+0445 -> "x"
    <<<<1110>>, <<105>>>>, \* U+0456 -> "i"
    <<<<1096>>, <<115,104>>>>, \* U+0448 -> "sh"
    <<<<1095>>, <<99,104>>>>, \* U+0447 -> "ch"
    <<<<1099>>, <<121,96>>>>, \* U+044B -> "y`"
    <<<<1087>>, <<112>>>>, \* U+043F -> "p"
    <<<<1092>>, <<102>>>>, \* U+0444 -> "f"
    <<<<1090>>, <<116>>>>, \* U+0442 -> "t"
    <<<<1101>>, <<101,96>>>>, \* U+044D -> "e`"
    <<<<1083>>, <<108>>>>, \* U+043B -> "l"
    <<<<1084>>, <<109>>>>, \* U+043C -> "m"
    <<<<1078>>, <<122,104>>>>, \* U+0436 -> "zh"
    <<<<1094>>, <<99>>>>, \* U+0446 -> "c"
    <<<<1100>>, <<96>>>>, \* U+044C -> "`"
    <<<<1085>>, <<110>>>>, \* U+043D -> "n"
    <<<<1081>>, <<106>>>>, \* U+0439 -> "j"
    <<<<1082>>, <<107>>>>, \* U+043A -> "k"
    <<<<1102>>, <<121,117>>>>, \* U+044E -> "yu"
    <<<<1079>>, <<122>>>>, \* U+0437 -> "z"
    <<<<1105>>, <<121,111>>>> \* U+0451 -> "yo"
  >>

\* GOST 7.79 System B: the pairs that the strings SOURCE_UA and TRANSLIT_UA of
\* tests.rs (lines 168-173) determine, in order of first appearance.
gost779b_ua ==
  <<
    <<<<1043>>, <<71>>>>, \* U+0413 -> "G"
    <<<<1077>>, <<101>>>>, \* U+0435 -> "e"
    <<<<1081>>, <<106>>>>, \* U+0439 -> "j"
    <<<<1093>>, <<120>>>>, \* U+0445 -> "x"
    <<<<1083>>, <<108>>>>, \* U+043B -> "l"
    <<<<1086>>, <<111>>>>, \* U+043E -> "o"
    <<<<1087>>, <<112>>>>, \* U+043F -> "p"
    <<<<1094>>, <<99>>>>, \* U+0446 -> "c"
    <<<<1110>>, <<105>>>>, \* U+0456 -> "i"
    <<<<1085>>, <<110>>>>, \* U+043D -> "n"
    <<<<1074>>, <<118>>>>, \* U+0432 -> "v"
    <<<<1089>>, <<115>>>>, \* U+0441 -> "s"
    <<<<1102>>, <<121,117>>>>, \* U+044E -> "yu"
    <<<<1072>>, <<97>>>>, \* U+0430 -> "a"
    <<<<1169>>, <<103,96>>>>, \* U+0491 -> "g`"
    <<<<1082>>, <<107>>>>, \* U+043A -> "k"
    <<<<1091>>, <<117>>>>, \* U+0443 -> "u"
    <<<<1096>>, <<115,104>>>>, \* U+0448 -> "sh"
    <<<<1092>>, <<102>>>>, \* U+0444 -> "f"
    <<<<1111>>, <<121,105>>>>, \* U+0457 -> "yi"
    <<<<1078>>, <<122,104>>>>, \* U+0436 -> "zh"
    <<<<1079>>, <<122>>>>, \* U+0437 -> "z"
    <<<<1080>>, <<121,96>>>>, \* U+0438 -> "y`"
    <<<<1097>>, <<115,104,104>>>>, \* U+0449 -> "shh"
    <<<<1108>>, <<121,101>>>>, \* U+0454 -> "ye"
    <<<<1090>>, <<116>>>>, \* U+0442 -> "t"
    <<<<1100>>, <<96>>>>, \* U+044C -> "`"
    <<<<1103>>, <<121,97>>>>, \* U+044F -> "ya"
    <<<<1073>>, <<98>>>>, \* U+0431 -> "b"
    <<<<1088>>, <<114>>>>, \* U+0440 -> "r"
    <<<<1076>>, <<100>>>>, \* U+0434 -> "d"
    <<<<1095>>, <<99,104>>>>, \* U+0447 -> "ch"
    <<<<1084>>, <<109>>>> \* U+043C -> "m"
  >>

\* The pairs that the documented example of BulgarianOfficial determines
\* (transliterator.rs, lines 207-209), in order of first appearance.
streamlined_system ==
  <<
    <<<<1056>>, <<82>>>>,  \* U+0420 -> "R"
    <<<<1072>>, <<97>>>>,  \* U+0430 -> "a"
    <<<<1079>>, <<122>>>>, \* U+0437 -> "z"
    <<<<1085>>, <<110>>>>, \* U+043D -> "n"
    <<<<1080>>, <<105>>>>, \* U+0438 -> "i"
    <<<<1087>>, <<112>>>>, \* U+043F -> "p"
    <<<<1088>>, <<114>>>>, \* U+0440 -> "r"
    <<<<1082>>, <<107>>>>  \* U+043A -> "k"
  >>

\* The custom table of the documentation of Transliterator::new.
doc_table ==
  <<
    <<<<1072>>, <<97>>>>,  \* U+0430 -> "a"
    <<<<1089>>, <<115>>>>, \* U+0441 -> "s"
    <<<<1076>>, <<100>>>>, \* U+0434 -> "d"
    <<<<1092>>, <<102>>>>  \* U+0444 -> "f"
  >>

(***************************************************************************)
(* Strings and their byte length.                                          *)
(***************************************************************************)
\* Bytes of the UTF-8 encoding of one scalar value.
Utf8Len(c) ==
  IF c < 128 THEN 1 ELSE IF c < 2048 THEN 2 ELSE IF c < 65536 THEN 3 ELSE 4

\* A mutation of str::len: the number of characters instead of bytes.
RECURSIVE StrLenChars(_)
StrLenChars(s) ==
  IF s = <<>> THEN 0 ELSE 1 + StrLenChars(Tail(s))

\* str::len: the length of a string in bytes.
RECURSIVE StrLen(_)
StrLen(s) ==
  IF s = <<>> THEN 0 ELSE Utf8Len(Head(s)) + StrLen(Tail(s))

(***************************************************************************)
(* Transliterator::new: the stable sort by descending target byte length.  *)
(***************************************************************************)
\* fn compare_len(left, right) -> Ordering
compare_len(left, right) ==
  IF StrLen(left) = StrLen(right) THEN "Equal"
  ELSE IF StrLen(left) > StrLen(right) THEN "Greater"
  ELSE "Less"

\* The closure |a, b| compare_len(b.1, a.1) given to sort_by.
SortCmp(a, b) == compare_len(b[2], a[2])

\* A mutation of the sort: elements that compare Equal come out in reverse
\* order (an unstable sort).
SortedPosReversed(table, i) ==
  Cardinality({j \in 1..Len(table) : SortCmp(table[j], table[i]) = "Less"})
    + Cardinality({j \in i..Len(table) : SortCmp(table[j], table[i]) = "Equal"})

\* slice::sort_by is a stable sort: the element at index i ends after the
\* elements that compare Less than it and after the elements before it that
\* compare Equal to it.
SortedPos(table, i) ==
  Cardinality({j \in 1..Len(table) : SortCmp(table[j], table[i]) = "Less"})
    + Cardinality({j \in 1..i : SortCmp(table[j], table[i]) = "Equal"})

\* table.sort_by(|a, b| compare_len(b.1, a.1))
SortBy(table) ==
  LET pos == [i \in 1..Len(table) |-> SortedPos(table, i)]
  IN  [k \in 1..Len(table) |-> table[CHOOSE i \in 1..Len(table) : pos[i] = k]]

\* A mutation of Transliterator::new: the table is kept as supplied.
NewUnsorted(custom_rules) == [rules |-> custom_rules]

\* Transliterator::new(custom_rules)
New(custom_rules) == [rules |-> SortBy(custom_rules)]

(***************************************************************************)
(* Transliterator::convert.                                                *)
(***************************************************************************)
\* A mutation of the scan of str::replace: after the first match the rest of
\* the string is copied (replacen with a count of 1).
ScanStepFirstOnly(s, from, to, i) ==
  IF from = <<>> THEN [out |-> <<s[i]>>, next |-> i + 1]
  ELSE IF /\ i + Len(from) - 1 <= Len(s)
          /\ SubSeq(s, i, i + Len(from) - 1) = from
          /\ \A j \in 1..(i - 1) :
               ~(j + Len(from) - 1 <= Len(s) /\ SubSeq(s, j, j + Len(from) - 1) = from)
       THEN [out |-> to, next |-> i + Len(from)]
       ELSE [out |-> <<s[i]>>, next |-> i + 1]

\* A mutation of the scan of str::replace: a character outside every match
\* is dropped instead of copied.
ScanStepDropping(s, from, to, i) ==
  IF from = <<>> THEN [out |-> to, next |-> i + 1]
  ELSE IF i + Len(from) - 1 <= Len(s) /\ SubSeq(s, i, i + Len(from) - 1) = from
       THEN [out |-> to, next |-> i + Len(from)]
       ELSE [out |-> <<>>, next |-> i + 1]

\* One step of the scan of str::replace(from, to) at character i of s: a
\* match of `from` starting at i is replaced by `to` and the scan resumes
\* after it; otherwise the character is copied.  The empty pattern matches
\* at every character boundary: `to` is put before the character.
ScanStep(s, from, to, i) ==
  IF from = <<>> THEN [out |-> to \o <<s[i]>>, next |-> i + 1]
  ELSE IF i + Len(from) - 1 <= Len(s) /\ SubSeq(s, i, i + Len(from) - 1) = from
       THEN [out |-> to, next |-> i + Len(from)]
       ELSE [out |-> <<s[i]>>, next |-> i + 1]

\* The left-to-right scan from character i up to (not including) character
\* hi, where lo <= i: the text produced and the position the scan has
\* reached.  The range lo..hi-1 is halved so that the evaluation depth is
\* logarithmic; the steps are taken in the order of the scan.
RECURSIVE Scan(_, _, _, _, _, _)
Scan(s, from, to, lo, hi, i) ==
  IF i >= hi THEN [out |-> <<>>, next |-> i]
  ELSE IF hi - lo = 1 THEN ScanStep(s, from, to, i)
  ELSE LET mid == (lo + hi) \div 2
           L == Scan(s, from, to, lo, mid, i)
           R == Scan(s, from, to, mid, hi, L.next)
       IN  [out |-> L.out \o R.out, next |-> R.next]

\* input.replace(from, to); the empty pattern also matches at the end of s.
Replace(s, from, to) ==
  Scan(s, from, to, 1, Len(s) + 1, 1).out \o (IF from = <<>> THEN to ELSE <<>>)

\* The body of the loop of convert for one element of self.rules.
Step(input, elem, invert) ==
  LET source_char == elem[1]
      translit_char == elem[2]
  IN  IF invert THEN Replace(input, translit_char, source_char)
      ELSE Replace(input, source_char, translit_char)

\* A mutation of the loop: every element is applied to src, not to the
\* working string.

ConvertLoopFromSrc(rs, input, invert, lo, hi) ==
  [n \in 1..(hi - lo + 1) |-> Step(input, rs[lo + n - 1], invert)]

\* The iterations lo..hi of the loop `for elem in self.rules.iter()`, started
\* with the working string `input`: the values `input` takes, one after each
\* iteration.  The range is halved so that the evaluation depth is
\* logarithmic; the elements are applied in the order of the table.
RECURSIVE ConvertLoop(_, _, _, _, _)
ConvertLoop(rs, input, invert, lo, hi) ==
  IF lo > hi THEN <<>>
  ELSE IF lo = hi THEN <<Step(input, rs[lo], invert)>>
  ELSE LET mid == (lo + hi) \div 2
           L == ConvertLoop(rs, input, invert, lo, mid)
       IN  L \o ConvertLoop(rs, L[Len(L)], invert, mid + 1, hi)

\* A mutation of convert: the loop consumes the table of the engine.
ConvertDraining(self, src, invert) ==
  LET steps == ConvertLoop(self.rules, src, invert, 1, Len(self.rules))
  IN  [self  |-> [rules |-> <<>>],
       steps |-> steps,
       ret   |-> IF steps = <<>> THEN src ELSE steps[Len(steps)]]

\* Transliterator::convert(&self, src, invert): the receiver after the call,
\* the values of the working string `input` after each iteration, and the
\* returned string, the last of them (src when the table is empty).
Convert(self, src, invert) ==
  LET steps == ConvertLoop(self.rules, src, invert, 1, Len(self.rules))
  IN  [self  |-> self,
       steps |-> steps,
       ret   |-> IF steps = <<>> THEN src ELSE steps[Len(steps)]]

\* A mutation of to_latin: the direction flag is inverted.
ToLatinInverted(self, src) == Convert(self, src, TRUE)

\* impl ToLatin for Transliterator
ToLatin(self, src) == Convert(self, src, FALSE)

\* impl FromLatin for Transliterator
FromLatin(self, src) == Convert(self, src, TRUE)

(***************************************************************************)
(* Input strings of the tests and of the documentation.                    *)
(***************************************************************************)
\* "Terminal" in Cyrillic, the input of test_russian_to_latin_translit_gost779b_ru_1
Terminal_ru == <<1058,1077,1088,1084,1080,1085,1072,1083>>

\* "Terminal"
Terminal_lat == <<84,101,114,109,105,110,97,108>>

\* U+0457 U+0436 U+0430, a word of SOURCE_UA
Yizha_ua == <<1111,1078,1072>>

\* a word of SOURCE_BY, "fate`lem"
Fatelem_by == <<1092,1072,1090,1101,1083,1077,1084>>

\* U+0435 U+044C: the letters of "e" and "`"
E_soft_by == <<1077,1100>>

\* U+044D: the letter of "e`"
E_rev_by == <<1101>>

\* the documented input of Passport2013
Moskva_ru == <<1052,1086,1089,1082,1074,1072,44,32,1058,1074,1077,1088,1089,1082,1072,1103,32,1091,1083,1080,1094,1072>>

\* "Moskva, Tverskaia ulitsa"
Moskva_lat == <<77,111,115,107,118,97,44,32,84,118,101,114,115,107,97,105,97,32,117,108,105,116,115,97>>

\* U+0451
Yo_ru == <<1105>>

\* U+0435
Ye_ru == <<1077>>

\* U+0429 U+044C
Shch_soft_ru == <<1065,1100>>

\* "Shch"
Shch_lat == <<83,104,99,104>>

\* the documented input of MacedonianOfficial
Nadzor_mk == <<1053,1072,1076,1079,1086,1088>>

\* "Nadzor"
Nadzor_lat == <<78,97,100,122,111,114>>

\* U+0434 U+0437
De_ze_mk == <<1076,1079>>

\* U+0455
Dze_mk == <<1109>>

\* the documented input of BulgarianOfficial
Razni_bg == <<1056,1072,1079,1085,1080,32,1087,1088,1080,1082,1072,1079,1082,1080>>

\* the input of the documentation of Transliterator::new
Fasad_ru == <<1092,1072,1089,1072,1076>>

\* "fasad"
Fasad_lat == <<102,97,115,97,100>>

\* "a1, ?"
Digits == <<97,49,44,32,63>>

(***************************************************************************)
(* The engines and the inputs of the model.                                *)
(***************************************************************************)
\* The string types of the wrappers around a Transliterator.
Wrappers == {"Gost779B", "Passport2013", "BulgarianOfficial", "MacedonianOfficial"}

\* The table a wrapper's constructor hands to Transliterator::new.
PresetTables(k) ==
  CASE k = "Gost779B" -> {gost779b_ru, gost779b_by, gost779b_ua}
    [] k = "Passport2013" -> {iternational_passport_2013_ru}
    [] k = "BulgarianOfficial" -> {streamlined_system}
    [] k = "MacedonianOfficial" -> {digraph_system}
    [] OTHER -> {}

\* Tables a caller hands to Transliterator::new directly.
DirectTables ==
  {iternational_passport_2013_ru, digraph_system, order_n_995_ru, doc_table}

\* The presets documented as ambiguous (no conversion back).
AmbiguousTables ==
  {iternational_passport_2013_ru, digraph_system, order_n_995_ru}

\* The input strings tried on the engine of a table.
InputsFor(table) ==
  {<<>>} \cup
  CASE table = gost779b_ru -> {Terminal_ru, Terminal_lat}
    [] table = gost779b_by -> {Fatelem_by, E_soft_by, E_rev_by}
    [] table = gost779b_ua -> {Yizha_ua}
    [] table = iternational_passport_2013_ru ->
         {Yo_ru, Ye_ru, Shch_soft_ru, Shch_lat}
    [] table = order_n_995_ru -> {Yo_ru, Ye_ru, Shch_soft_ru, Shch_lat}
    [] table = digraph_system -> {Nadzor_mk, De_ze_mk, Dze_mk}
    [] table = streamlined_system -> {Razni_bg}
    [] table = doc_table -> {Fasad_ru, Fasad_lat, Digits}
    [] OTHER -> {}

\* Every string of at most n characters of the set A.
StringsUpTo(A, n) == UNION {[1..k -> A] : k \in 0..n}

\* The characters of the enumerated tables and inputs:
\* "a", "b" (1 byte), U+044F (2 bytes), U+2116 (3 bytes).
SmallAlphabet == {97, 98, 1103, 8470}

\* The pairs of the enumerated caller-supplied tables: a source shared by two
\* pairs, targets of 0, 1, 2 and 3 bytes, one of them a prefix of another,
\* a target that is another pair's source, a target that contains its own
\* source, an empty source, an empty target.
CustomPairs ==
  { <<<<1103>>, <<97>>>>,
    <<<<1103>>, <<97, 98>>>>,
    <<<<98>>, <<1103>>>>,
    <<<<97>>, <<98>>>>,
    <<<<97>>, <<97, 98>>>>,
    <<<<97, 98>>, <<8470>>>>,
    <<<<8470>>, <<>>>>,
    <<<<>>, <<98>>>> }

CustomTables == StringsUpTo(CustomPairs, MaxRules)

\* Longer inputs in which the two-character target "ab" stands beside one
\* of its characters: "abb", "aab", "aba".
LongerInputs == {<<97, 98, 98>>, <<97, 97, 98>>, <<97, 98, 97>>}

SmallInputs == StringsUpTo(SmallAlphabet, MaxLen) \cup LongerInputs

\* A sample of the Passport 2013 alphabet (letters with targets of 0, 1, 2
\* and 4 characters, letters sharing a target) with a space, a comma and
\* the Latin letter "e", which no source contains.
PassportSample == {1097, 1096, 1089, 1093, 1100, 1068, 1077, 1105, 1098, 8470, 32, 44, 101}

\* The characters that occur in a token of side i (1: source, 2: target).
SideChars(table, i) ==
  UNION {{table[n][i][j] : j \in 1..Len(table[n][i])} : n \in 1..Len(table)}

PassportInputs ==
  StringsUpTo(PassportSample, MaxPresetLen)
    \cup {<<c>> : c \in SideChars(iternational_passport_2013_ru, 1)}
    \cup {Moskva_ru}

NoCall ==
  [op |-> "none", src |-> <<>>, invert |-> FALSE, steps |-> <<>>, out |-> <<>>]

(***************************************************************************)
(* The state machine: an engine is constructed, then called.               *)
(***************************************************************************)
\* The state after X::new(...): the sorted table, no call made yet.
Constructed(k, table) ==
  /\ kind = k
  /\ supplied = table
  /\ rules = New(table).rules
  /\ calls = 0
  /\ prev = NoCall
  /\ last = NoCall

Init ==
  \/ \E k \in Wrappers : \E table \in PresetTables(k) : Constructed(k, table)
  \/ \E table \in DirectTables : Constructed("Transliterator", table)

InitCustom ==
  \E table \in CustomTables : Constructed("Transliterator", table)

InitPassport ==
  Constructed("Passport2013", iternational_passport_2013_ru)

\* The effect of a call that returned r = [self, ret].
Invoke(op, src, invert, r) ==
  /\ rules' = r.self.rules
  /\ prev' = last
  /\ last' = [op |-> op, src |-> src, invert |-> invert,
              steps |-> r.steps, out |-> r.ret]
  /\ calls' = calls + 1
  /\ UNCHANGED <<kind, supplied>>

\* Transliterator::convert(src, invert); the wrappers do not expose it.
ConvertCall(S, cap) ==
  /\ kind = "Transliterator"
  /\ calls < cap
  /\ \E src \in S, invert \in BOOLEAN :
       Invoke("convert", src, invert, Convert([rules |-> rules], src, invert))

\* to_latin(src) of a Transliterator, or of a wrapper, which forwards to
\* self.translit.to_latin(src).
ToLatinCall(S, cap) ==
  /\ calls < cap
  /\ \E src \in S :
       Invoke("to_latin", src, FALSE, ToLatin([rules |-> rules], src))

\* from_latin(src) of a Transliterator, or of Gost779B, which forwards to
\* self.translit.from_latin(src); the other wrappers do not implement it.
FromLatinCall(S, cap) ==
  /\ kind \in {"Transliterator", "Gost779B"}
  /\ calls < cap
  /\ \E src \in S :
       Invoke("from_latin", src, TRUE, FromLatin([rules |-> rules], src))

\* The inputs of a call: the strings tried on the table, or what the
\* previous call returned when that is at most MaxFeedLen characters long.
Inputs ==
  InputsFor(supplied)
    \cup (IF calls > 0 /\ Len(last.out) <= MaxFeedLen THEN {last.out} ELSE {})

Next ==
  \/ ConvertCall(Inputs, MaxCalls)
  \/ ToLatinCall(Inputs, MaxCalls)
  \/ FromLatinCall(Inputs, MaxCalls)

Spec == Init /\ [][Next]_vars

\* One call on an engine built from an enumerated caller-supplied table.
NextCustom ==
  \/ ConvertCall(SmallInputs, 1)
  \/ ToLatinCall(SmallInputs, 1)
  \/ FromLatinCall(SmallInputs, 1)

SpecCustom == InitCustom /\ [][NextCustom]_vars

\* One call of Passport2013::to_latin.
NextPassport == ToLatinCall(PassportInputs, 1)

SpecPassport == InitPassport /\ [][NextPassport]_vars

(***************************************************************************)
(* Definitions used to state the properties.                               *)
(***************************************************************************)
Forward(c) == c.op \in {"convert", "to_latin"} /\ ~c.invert

Inverse(c) == c.op \in {"convert", "from_latin"} /\ c.invert

\* The key and the value of a pair for a direction.
KeyOf(elem, invert) == IF invert THEN elem[2] ELSE elem[1]

ValueOf(elem, invert) == IF invert THEN elem[1] ELSE elem[2]

\* The working string before iteration i of the loop of call c.
Before(c, i) == IF i = 1 THEN c.src ELSE c.steps[i - 1]

\* The UTF-8 byte length of a string, counted per character class.
Bytes(s) ==
  Len(s) + Cardinality({i \in 1..Len(s) : s[i] >= 128})
         + Cardinality({i \in 1..Len(s) : s[i] >= 2048})
         + Cardinality({i \in 1..Len(s) : s[i] >= 65536})

\* Number of occurrences of the pair p in the table t.
Count(t, p) == Cardinality({n \in 1..Len(t) : t[n] = p})

Range(t) == {t[n] : n \in 1..Len(t)}

\* k occurs in s at character i.
Occurs(s, k, i) ==
  i >= 1 /\ i + Len(k) - 1 <= Len(s) /\ SubSeq(s, i, i + Len(k) - 1) = k

\* The occurrence of k at i is one of the non-overlapping occurrences taken
\* from left to right: no taken occurrence that starts before i reaches i.
RECURSIVE Taken(_, _, _)
Taken(s, k, i) ==
  /\ Occurs(s, k, i)
  /\ \A j \in (i - Len(k) + 1)..(i - 1) : ~Taken(s, k, j)

\* Character p of s lies inside a taken occurrence of k.
Covered(s, k, p) == \E j \in (p - Len(k) + 1)..p : Taken(s, k, j)

\* s with every taken occurrence of k replaced by v, as a function of the
\* position in the result: boundary p of s contributes v when an occurrence
\* is taken there, then character p when no taken occurrence covers it.
Replaced(s, k, v) ==
  LET n == Len(s)
      piece == [p \in 1..(n + 1) |->
                  (IF Taken(s, k, p) THEN v ELSE <<>>)
                    \o (IF p <= n /\ ~Covered(s, k, p) THEN <<s[p]>> ELSE <<>>)]
      off == [p \in 1..(n + 2) |->
                Len(v) * Cardinality({q \in 1..(p - 1) : Taken(s, k, q)})
                  + Cardinality({q \in 1..(p - 1) : q <= n /\ ~Covered(s, k, q)})]
  IN  [m \in 1..off[n + 2] |->
         LET p == CHOOSE q \in 1..(n + 1) : off[q] < m /\ m <= off[q + 1]
         IN  piece[p][m - off[p]]]

\* The characters that occur in a token of the table.
TableChars(table) == SideChars(table, 1) \cup SideChars(table, 2)

\* s restricted to the characters outside the set A.
Outside(s, A) == SelectSeq(s, LAMBDA c : c \notin A)

\* s is made only of characters of source tokens of the table.
OverSources(s, table) == \A i \in 1..Len(s) : s[i] \in SideChars(table, 1)

\* The image of one character under a table of single-character sources.
CharImage(table, c) ==
  IF \E n \in 1..Len(table) : table[n][1] = <<c>>
  THEN table[CHOOSE n \in 1..Len(table) : table[n][1] = <<c>>][2]
  ELSE <<c>>

\* The character-by-character image of a string.
RECURSIVE MapChars(_, _)
MapChars(table, s) ==
  IF s = <<>> THEN <<>>
  ELSE CharImage(table, Head(s)) \o MapChars(table, Tail(s))

\* The engine that Transliterator::new builds from each table of the preset
\* specification.
BuiltFrom ==
  [t \in DirectTables \cup UNION {PresetTables(k) : k \in Wrappers} |-> New(t)]

\* Two strings of the source alphabet of an ambiguous preset.
Colliding(table) ==
  IF table = digraph_system THEN <<De_ze_mk, Dze_mk>> ELSE <<Yo_ru, Ye_ru>>

\* The pairs of the table t whose target is n bytes long, in their order.
WithTargetBytes(t, n) == SelectSeq(t, LAMBDA e : Bytes(e[2]) = n)

\* The sources of the Passport 2013 pairs with target "E", in the order of
\* the rule list that new builds.
PassportSourcesOfE ==
  LET r == SelectSeq(BuiltFrom[iternational_passport_2013_ru].rules,
                     LAMBDA e : e[2] = <<69>>)
  IN  [n \in 1..Len(r) |-> r[n][1]]

\* k occurs somewhere in s.
OccursIn(s, k) == \E i \in 1..(Len(s) + 1) : Occurs(s, k, i)

\* a is a proper substring (a proper prefix included) of b.
ProperSubstring(a, b) == a # b /\ OccursIn(b, a)

\* No source of the table is empty and no character of a source occurs in
\* a target.
SourcesApartFromTargets(table) ==
  /\ \A n \in 1..Len(table) : table[n][1] # <<>>
  /\ SideChars(table, 1) \cap SideChars(table, 2) = {}

(***************************************************************************)
(* The properties.                                                         *)
(***************************************************************************)
\* C1: convert(src, invert) is the fold over the sorted table in its order:
\* step i replaces every non-overlapping occurrence, taken left to right, of
\* the key of rules[i] in the working string by its value, the output of a
\* step is the input of the next, and the last output is returned.
C1_ConvertIsFold ==
  last.op = "convert" =>
    /\ Len(last.steps) = Len(rules)
    /\ \A i \in 1..Len(rules) :
         last.steps[i] = Replaced(Before(last, i), KeyOf(rules[i], last.invert),
                                  ValueOf(rules[i], last.invert))
    /\ last.out = Before(last, Len(rules) + 1)

\* A call in which a key occurs more than once in the working string and
\* the second step works on the output of the first.
C1_Witness ==
  /\ last.op = "convert"
  /\ Len(rules) = 2
  /\ KeyOf(rules[1], last.invert) # <<>>
  /\ \E i, j \in 1..Len(last.src) :
       /\ i < j
       /\ Taken(last.src, KeyOf(rules[1], last.invert), i)
       /\ Taken(last.src, KeyOf(rules[1], last.invert), j)
  /\ last.steps[1] # last.src
  /\ last.steps[2] # last.steps[1]

\* C2: after new(table) the rule list is a rearrangement of exactly the
\* supplied pairs, with the UTF-8 byte length of the target non-increasing
\* from the first entry to the last.
C2_SortedByTargetBytes ==
  /\ Len(rules) = Len(supplied)
  /\ \A p \in Range(supplied) \cup Range(rules) : Count(rules, p) = Count(supplied, p)
  /\ \A i, j \in 1..Len(rules) : i < j => Bytes(rules[i][2]) >= Bytes(rules[j][2])

\* A table that new reordered, in which a target of fewer characters but
\* more bytes stands before a target of more characters.
C2_Witness ==
  /\ rules # supplied
  /\ \E i, j \in 1..Len(rules) :
       /\ i < j
       /\ Len(rules[i][2]) < Len(rules[j][2])
       /\ Bytes(rules[i][2]) > Bytes(rules[j][2])

\* C3: on a Gost779B engine, from_latin(to_latin(s)) = s for every string s
\* made only of characters of the source alphabet of the table.
C3_GostRoundTrip ==
  ( /\ kind = "Gost779B"
    /\ prev.op = "to_latin"
    /\ OverSources(prev.src, supplied)
    /\ last.op = "from_latin"
    /\ last.src = prev.out )
  => last.out = prev.src

\* C4: on every engine, to_latin(s) is convert(s, false) and from_latin(s)
\* is convert(s, true) of the Transliterator that new builds from the table.
C4_WrappersAreConvert ==
  /\ last.op = "to_latin" =>
       last.out = Convert(BuiltFrom[supplied], last.src, FALSE).ret
  /\ last.op = "from_latin" =>
       last.out = Convert(BuiltFrom[supplied], last.src, TRUE).ret

\* to_latin of a wrapper has changed its input.
C4_Witness ==
  /\ kind \in Wrappers
  /\ last.op = "to_latin"
  /\ last.out # last.src

\* C5: convert("", invert) returns the empty string, for both directions and
\* every table.
C5_EmptyInput ==
  (last.op # "none" /\ last.src = <<>>) => last.out = <<>>

\* C6: Passport2013::to_latin(s) is the character-by-character image of s
\* under the table, no source letter of the table remains in the output,
\* and the documented input gives "Moskva, Tverskaia ulitsa".
C6_PassportCharByChar ==
  (kind = "Passport2013" /\ last.op = "to_latin") =>
    /\ last.out = MapChars(supplied, last.src)
    /\ \A i \in 1..Len(last.out) : last.out[i] \notin SideChars(supplied, 1)
    /\ last.src = Moskva_ru => last.out = Moskva_lat

\* The documented call.
C6_Witness ==
  /\ kind = "Passport2013"
  /\ last.op = "to_latin"
  /\ last.src = Moskva_ru
  /\ last.out = Moskva_lat

\* C7: on each ambiguous preset two distinct strings of its Cyrillic alphabet
\* have the same forward output, and converting the first of them forward
\* and then back does not return it; for the Macedonian table the documented
\* input gives "Nadzor", which does not convert back to the input.
C7_AmbiguousPresets ==
  supplied \in AmbiguousTables =>
    LET a == Colliding(supplied)[1]
        b == Colliding(supplied)[2]
    IN  /\ a # b /\ OverSources(a, supplied) /\ OverSources(b, supplied)
        /\ (Forward(prev) /\ prev.src = a /\ Forward(last) /\ last.src = b)
             => last.out = prev.out
        /\ (Forward(prev) /\ prev.src \in {a, Nadzor_mk}
              /\ Inverse(last) /\ last.src = prev.out)
             => last.out # prev.src
        /\ (Forward(last) /\ last.src = Nadzor_mk) => last.out = Nadzor_lat

\* The Macedonian round trip of U+0434 U+0437 ends in U+0455.
C7_Witness ==
  /\ supplied = digraph_system
  /\ Forward(prev)
  /\ prev.src = De_ze_mk
  /\ Inverse(last)
  /\ last.src = prev.out
  /\ last.out = Dze_mk

\* C8: the characters of the input that occur in no token of the table
\* appear in the output unchanged, in the same order and number.
C8_UnmappedPassThrough ==
  last.op # "none" =>
    Outside(last.out, TableChars(supplied)) = Outside(last.src, TableChars(supplied))

\* A call that changed a string holding a character of no token.
C8_Witness ==
  /\ last.op # "none"
  /\ Outside(last.src, TableChars(supplied)) # <<>>
  /\ Len(Outside(last.src, TableChars(supplied))) < Len(last.src)
  /\ last.out # last.src

\* C9: the step of an entry whose key for the direction is the empty string
\* leaves the working string unchanged.
C9_EmptyKeyNoOp ==
  last.op # "none" =>
    \A i \in 1..Len(rules) :
      KeyOf(rules[i], last.invert) = <<>> => last.steps[i] = Before(last, i)

\* C10: the rule list stays the list produced by new, and calls with the
\* same arguments return the same string whatever call came before.
C10_TableNeverChanges ==
  /\ rules = BuiltFrom[supplied].rules
  /\ (prev.op # "none" /\ prev.src = last.src /\ prev.invert = last.invert)
       => prev.out = last.out

\* The same arguments twice, after which the table is still sorted as by new.
C10_Witness ==
  /\ calls = 2
  /\ prev.src = last.src
  /\ prev.invert = last.invert
  /\ last.out # last.src

\* C11: the sort of new is stable: the entries whose targets have the same
\* byte length keep the relative order of the supplied table, whatever their
\* contents; of the Passport 2013 entries with target "E" the one for U+0415
\* stays before those for U+0401 and U+042D.
C11_SortIsStable ==
  /\ \A n \in {Bytes(supplied[i][2]) : i \in 1..Len(supplied)} :
       WithTargetBytes(rules, n) = WithTargetBytes(supplied, n)
  /\ PassportSourcesOfE = <<<<1045>>, <<1025>>, <<1069>>>>

\* Two supplied pairs with targets of the same byte length and different
\* contents ("b" before "a"), kept in the order they were supplied in.
C11_Witness ==
  /\ Len(rules) >= 2
  /\ \E i \in 1..(Len(rules) - 1) :
       /\ rules[i] = supplied[i]
       /\ rules[i + 1] = supplied[i + 1]
       /\ Bytes(rules[i][2]) = Bytes(rules[i + 1][2])
       /\ rules[i][2] = <<98>>
       /\ rules[i + 1][2] = <<97>>

\* C12 as stated: an entry whose target is a proper substring of another
\* entry's target is applied after it, and in an inverse conversion no
\* occurrence of the longer target is left in the working string when the
\* entry of the shorter target is applied, in every engine.
C12_LongestTargetFirst ==
  \A i, j \in 1..Len(rules) :
    ProperSubstring(rules[j][2], rules[i][2]) =>
      /\ i < j
      /\ Inverse(last) => ~OccursIn(Before(last, j), rules[i][2])

\* C12 as amended: the order holds in every engine; that no occurrence of
\* the longer target is left holds for the tables in which no source is
\* empty and no character of a source occurs in a target.
C12_LongestTargetFirstAmended ==
  \A i, j \in 1..Len(rules) :
    ProperSubstring(rules[j][2], rules[i][2]) =>
      /\ i < j
      /\ (Inverse(last) /\ SourcesApartFromTargets(supplied))
           => ~OccursIn(Before(last, j), rules[i][2])

\* An inverse call on a table that new reordered, in which the entry of the
\* longer target replaced an occurrence and the entry of the shorter target,
\* a prefix of the longer, replaced one of the characters left.
C12_Witness ==
  /\ Inverse(last)
  /\ SourcesApartFromTargets(supplied)
  /\ Len(rules) = 2
  /\ rules # supplied
  /\ ProperSubstring(rules[2][2], rules[1][2])
  /\ rules[2][2] # <<>>
  /\ last.steps[1] # last.src
  /\ last.steps[2] # last.steps[1]

\* The characters of the string s.
CharsOf(s) == {s[i] : i \in 1..Len(s)}

\* The entries i < j of the rule list have the same, non-empty, source token.
SharedSource(i, j) ==
  /\ i \in 1..Len(rules) /\ j \in 1..Len(rules) /\ i < j
  /\ rules[i][1] = rules[j][1]
  /\ rules[i][1] # <<>>

SingleCharShape(table) ==
  /\ \A n \in 1..Len(table) : Len(table[n][1]) = 1
  /\ \A m, n \in 1..Len(table) : table[m][1] = table[n][1] => m = n
  /\ SideChars(table, 1) \cap SideChars(table, 2) = {}

\* The tables with the pairs of the given one in every order.
Reorderings(table) ==
  {[n \in 1..Len(table) |-> table[f[n]]] : f \in Permutations(1..Len(table))}

\* The given table with its pairs in the opposite order.
Reversed(table) == [n \in 1..Len(table) |-> table[Len(table) + 1 - n]]

\* The Passport 2013, Order N 995 and Macedonian tables have the shape, and
\* for two strings of each the engine built from the table and the engine
\* built from the reversed table give the per-character image.
PresetsOrderFree ==
  \A t \in AmbiguousTables :
    /\ SingleCharShape(t)
    /\ \A s \in {Colliding(t)[1], Colliding(t)[2]} :
         /\ Convert(BuiltFrom[t], s, FALSE).ret = MapChars(t, s)
         /\ Convert(New(Reversed(t)), s, FALSE).ret = MapChars(t, s)

\* C14: for a table of single-character, pairwise distinct sources of which
\* none occurs in a target, the forward conversion is the simultaneous
\* per-character mapping of the input, and the engine built from any
\* reordering of the table returns the same output; the three preset tables
\* named have this shape.
C14_OrderIndependent ==
  /\ PresetsOrderFree
  /\ (SingleCharShape(supplied) /\ Forward(last)) =>
       /\ last.out = MapChars(supplied, last.src)
       /\ \A t \in Reorderings(supplied) :
            /\ Convert(New(t), last.src, FALSE).ret = last.out
            /\ MapChars(t, last.src) = last.out

\* A forward call on a table of the shape that new reordered, in which both
\* entries replaced a character of the input.
C14_Witness ==
  /\ SingleCharShape(supplied)
  /\ Len(rules) = 2
  /\ rules # supplied
  /\ Forward(last)
  /\ last.steps[1] # last.src
  /\ last.steps[2] # last.steps[1]
  /\ last.out = MapChars(supplied, last.src)
====
